---------------------------- MODULE Spec2Model ----------------------------
(***************************************************************************)
(* A model of terraform-clean-syntax (src/main.go).                        *)
(*                                                                         *)
(* Three specifications share this module:                                 *)
(*   SpecExpr  the token simplifiers cleanValueExpr, cleanTypeExpr and     *)
(*             trimNewlines, applied to token sequences drawn from bounded *)
(*             sets;                                                       *)
(*   SpecWalk  the recursive walk cleanBody over a document tree, with     *)
(*             Go's slice/append semantics for the inBlocks context;       *)
(*   SpecFS    the driver processItem / processDir / processFile over a    *)
(*             small file system.                                          *)
(***************************************************************************)
EXTENDS Integers, Sequences, FiniteSets, TLC

VARIABLES
    \* ---- SpecExpr
    tokens,     \* the argument of the simplifier under test
    out,        \* what the call returned (or that it panicked)
    out2,       \* what a second cleanValueExpr call on `out` returned
    op,         \* which function has been called
    \* ---- SpecWalk
    exprs,      \* the expression tokens every body's attributes start with
    stack,      \* the active cleanBody invocations, outermost first
    heap,       \* the backing arrays of the inBlocks slices
    \* ---- SpecFS
    fsys,       \* the file system's names and kinds, and what the parser says
    disk,       \* the content of every file
    calls,      \* the call stack of processItem / processDir / processFile
    processed,  \* the files processFile has been invoked on
    skipLogged, \* the paths logged as "Skipping ...: not a regular file"
    ioFailed,   \* whether an Lstat or ReadDir call has failed
    wstate      \* per file, how far WriteFile got

exprVars == <<tokens, out, out2, op>>
walkVars == <<exprs, stack, heap>>
fsVars == <<fsys, disk, calls, processed, skipLogged, ioFailed, wstate>>

vars == <<tokens, out, out2, op, exprs, stack, heap,
          fsys, disk, calls, processed, skipLogged, ioFailed, wstate>>

(***************************************************************************)
(* Bounds of the model.                                                    *)
(***************************************************************************)
MaxLen == 5        \* longest arbitrary token sequence handed to a simplifier
MaxInside == 6     \* longest interior of a wrapped "${ ... }" sequence
MaxTypeLen == 4    \* longest sequence over the type-expression alphabet
MaxDepth == 4      \* deepest nesting of blocks in a document
MaxBlocks == 2     \* most child blocks of one body

(***************************************************************************)
(* Tokens: hclwrite.Token has a Type (hclsyntax.TokenType) and Bytes.      *)
(***************************************************************************)
TokenOQuote == "TokenOQuote"
TokenCQuote == "TokenCQuote"
TokenTemplateInterp == "TokenTemplateInterp"
TokenTemplateSeqEnd == "TokenTemplateSeqEnd"
TokenQuotedLit == "TokenQuotedLit"
TokenIdent == "TokenIdent"
TokenOParen == "TokenOParen"
TokenCParen == "TokenCParen"
TokenNewline == "TokenNewline"

Tok(type, bytes) == [Type |-> type, Bytes |-> bytes]

OQuote == Tok(TokenOQuote, "\"")
CQuote == Tok(TokenCQuote, "\"")
Interp == Tok(TokenTemplateInterp, "${")
SeqEnd == Tok(TokenTemplateSeqEnd, "}")
Newline == Tok(TokenNewline, "\n")
Ident(name) == Tok(TokenIdent, name)
QuotedLit(text) == Tok(TokenQuotedLit, text)
OParen == Tok(TokenOParen, "(")
CParen == Tok(TokenCParen, ")")

(***************************************************************************)
(* A Go function either returns a token sequence or panics.                *)
(***************************************************************************)
Ret(toks) == [panicked |-> FALSE, tokens |-> toks]
Panic == [panicked |-> TRUE, tokens |-> <<>>]

\* The Go slice expression s[low:high] (0-based, high exclusive): a run-time
\* panic "slice bounds out of range" unless 0 <= low <= high <= len(s).
SliceExpr(s, low, high) ==
    IF 0 <= low /\ low <= high /\ high <= Len(s)
    THEN Ret(SubSeq(s, low + 1, high))
    ELSE Panic

(***************************************************************************)
(* trimNewlines, main.go:253-269.                                          *)
(***************************************************************************)
RECURSIVE TrimStart(_, _)
\* for start = 0; start < len(tokens); start++ { if != Newline { break } }
TrimStart(toks, start) ==
    IF start < Len(toks) /\ toks[start + 1].Type = TokenNewline
    THEN TrimStart(toks, start + 1)
    ELSE start

RECURSIVE TrimEnd(_, _)
\* for end = len(tokens); end > 0; end-- { if tokens[end-1] != Newline { break } }
TrimEnd(toks, end) ==
    IF end > 0 /\ toks[end].Type = TokenNewline
    THEN TrimEnd(toks, end - 1)
    ELSE end

trimNewlines(toks) ==
    IF Len(toks) = 0
    THEN Ret(<<>>)
    ELSE SliceExpr(toks, TrimStart(toks, 0), TrimEnd(toks, Len(toks)))

(***************************************************************************)
(* cleanValueExpr, main.go:129-185.                                        *)
(***************************************************************************)
\* Mutant of InNestedQuotes: the depth test off by one (quotes >= 0).
InNestedQuotesOffByOne(quotes) == quotes >= 0

\* `if quotes > 0 { continue }`
InNestedQuotes(quotes) == quotes > 0

RECURSIVE ScanInside(_, _, _)
\* The loop over `inside`; TRUE when it reaches its `return tokens`.
ScanInside(inside, i, quotes) ==
    IF i > Len(inside) THEN FALSE
    ELSE LET token == inside[i] IN
         IF token.Type = TokenOQuote THEN ScanInside(inside, i + 1, quotes + 1)
         ELSE IF token.Type = TokenCQuote THEN ScanInside(inside, i + 1, quotes - 1)
         ELSE IF InNestedQuotes(quotes) THEN ScanInside(inside, i + 1, quotes)
         ELSE IF token.Type \in {TokenTemplateInterp, TokenTemplateSeqEnd} THEN TRUE
         ELSE ScanInside(inside, i + 1, quotes)

\* The guard on the four delimiter tokens (main.go:135-142).
IsInterpSequence(toks) ==
    /\ toks[1].Type = TokenOQuote
    /\ toks[2].Type = TokenTemplateInterp
    /\ toks[Len(toks) - 1].Type = TokenTemplateSeqEnd
    /\ toks[Len(toks)].Type = TokenCQuote

cleanValueExpr(toks) ==
    IF Len(toks) < 5 THEN Ret(toks)
    ELSE IF ~IsInterpSequence(toks) THEN Ret(toks)
    ELSE LET inside == SubSeq(toks, 3, Len(toks) - 2) IN
         IF ScanInside(inside, 1, 0) THEN Ret(toks)
         ELSE trimNewlines(inside)

(***************************************************************************)
(* cleanTypeExpr, main.go:187-251.                                         *)
(***************************************************************************)
ListTokens == <<Ident("list"), OParen, Ident("string"), CParen>>
MapTokens == <<Ident("map"), OParen, Ident("string"), CParen>>

\* Mutant of StringTokens: the "string" case pasted from the "list" case
\* with only the first identifier changed.
StringTokensPasted == <<Ident("string"), OParen, Ident("string"), CParen>>

StringTokens == <<Ident("string")>>

\* Mutant of IsQuotedString: the length test forgotten for longer inputs.
IsQuotedStringNoLen(toks) ==
    /\ Len(toks) >= 3
    /\ toks[1].Type = TokenOQuote
    /\ toks[2].Type = TokenQuotedLit
    /\ toks[3].Type = TokenCQuote

\* The two guards of cleanTypeExpr (main.go:188-199).
IsQuotedString(toks) ==
    /\ Len(toks) = 3
    /\ toks[1].Type = TokenOQuote
    /\ toks[2].Type = TokenQuotedLit
    /\ toks[3].Type = TokenCQuote

cleanTypeExpr(toks) ==
    IF ~IsQuotedString(toks) THEN Ret(toks)
    ELSE CASE toks[2].Bytes = "string" -> Ret(StringTokens)
           [] toks[2].Bytes = "list" -> Ret(ListTokens)
           [] toks[2].Bytes = "map" -> Ret(MapTokens)
           [] OTHER -> Ret(toks)

(***************************************************************************)
(* Inputs of SpecExpr.                                                     *)
(***************************************************************************)
SeqsUpTo(S, n) == UNION {[1..k -> S] : k \in 0..n}

\* The token kinds cleanValueExpr and trimNewlines tell apart.
ValueAlphabet == {OQuote, CQuote, Interp, SeqEnd, Newline, Ident("foo")}

\* The token kinds and literal texts cleanTypeExpr tells apart.
TypeTexts == {"string", "list", "map", "number", "String", "lists"}
TypeAlphabet == {OQuote, CQuote, Ident("string")} \cup {QuotedLit(t) : t \in TypeTexts}

Wrap(inside) == <<OQuote, Interp>> \o inside \o <<SeqEnd, CQuote>>

Inputs ==
    SeqsUpTo(ValueAlphabet, MaxLen)
      \cup {Wrap(inside) : inside \in SeqsUpTo(ValueAlphabet, MaxInside)}
      \cup SeqsUpTo(TypeAlphabet, MaxTypeLen)

(***************************************************************************)
(* SpecExpr: one call of a simplifier on an input, and for cleanValueExpr  *)
(* a second call on its own output.                                        *)
(***************************************************************************)
ExprIdle ==
    /\ tokens = <<>>
    /\ out = Ret(<<>>)
    /\ out2 = Ret(<<>>)
    /\ op = "idle"

WalkIdle ==
    /\ exprs = <<>>
    /\ stack = <<>>
    /\ heap = <<>>

FSIdle ==
    /\ fsys = <<>>
    /\ disk = <<>>
    /\ calls = <<>>
    /\ processed = {}
    /\ skipLogged = {}
    /\ ioFailed = FALSE
    /\ wstate = <<>>

InitExpr ==
    /\ tokens \in Inputs
    /\ out = Ret(<<>>)
    /\ out2 = Ret(<<>>)
    /\ op = "input"
    /\ WalkIdle
    /\ FSIdle

CallTrimNewlines ==
    /\ op = "input"
    /\ out' = trimNewlines(tokens)
    /\ op' = "trimNewlines"
    /\ UNCHANGED <<tokens, out2, walkVars, fsVars>>

CallCleanValueExpr ==
    /\ op = "input"
    /\ out' = cleanValueExpr(tokens)
    /\ op' = "cleanValueExpr"
    /\ UNCHANGED <<tokens, out2, walkVars, fsVars>>

CallCleanValueExprAgain ==
    /\ op = "cleanValueExpr"
    /\ ~out.panicked
    /\ out2' = cleanValueExpr(out.tokens)
    /\ op' = "cleanValueExprTwice"
    /\ UNCHANGED <<tokens, out, walkVars, fsVars>>

CallCleanTypeExpr ==
    /\ op = "input"
    /\ out' = cleanTypeExpr(tokens)
    /\ op' = "cleanTypeExpr"
    /\ UNCHANGED <<tokens, out2, walkVars, fsVars>>

NextExpr ==
    \/ CallTrimNewlines
    \/ CallCleanValueExpr
    \/ CallCleanValueExprAgain
    \/ CallCleanTypeExpr

SpecExpr == InitExpr /\ [][NextExpr]_vars

(***************************************************************************)
(* Go slices of strings, as cleanBody's inBlocks uses them: a slice is an  *)
(* (array, len, cap) triple over a backing array on the heap; append       *)
(* writes in place while len < cap and otherwise copies the elements into  *)
(* a new array of grown capacity (main.go:124).                            *)
(***************************************************************************)
Min(S) == CHOOSE x \in S : \A y \in S : x <= y
Max(S) == CHOOSE x \in S : \A y \in S : x >= y

\* At most one live backing array per active invocation.
NumArrays == MaxDepth + 1

NilSlice == [arr |-> 0, len |-> 0, cap |-> 0]

\* The elements a slice shows: the first len elements of its array.
View(h, s) == IF s.len = 0 THEN <<>> ELSE SubSeq(h[s.arr], 1, s.len)

\* The capacity append grows a full slice of strings to (1, 2, 4, 8, ...).
GrowCap(cap) == IF cap = 0 THEN 1 ELSE 2 * cap

FreeArray(h) == Min({a \in 1..NumArrays : h[a] = <<>>})

\* append(s, x): the new slice and the heap after the call.
GoAppend(h, s, x) ==
    IF s.len < s.cap
    THEN [slice |-> [s EXCEPT !.len = s.len + 1],
          heap |-> [h EXCEPT ![s.arr][s.len + 1] = x]]
    ELSE LET a == FreeArray(h)
             newcap == GrowCap(s.cap)
         IN  [slice |-> [arr |-> a, len |-> s.len + 1, cap |-> newcap],
              heap |-> [h EXCEPT ![a] =
                          [i \in 1..newcap |->
                              IF i <= s.len THEN h[s.arr][i]
                              ELSE IF i = s.len + 1 THEN x ELSE ""]]]

\* Arrays no active invocation refers to are garbage.
Collect(h, stk) ==
    [a \in 1..NumArrays |->
        IF \E i \in 1..Len(stk) : stk[i].inBlocks.arr = a THEN h[a] ELSE <<>>]

(***************************************************************************)
(* cleanBody, main.go:110-127.                                             *)
(***************************************************************************)
AttrNames == {"type", "name"}
BlockTypes == {"variable", "resource"}

\* The attribute expressions of the documents walked: every body holds a
\* `type` and a `name` attribute with these expressions.
ExampleDocs ==
    {[type |-> <<OQuote, QuotedLit("list"), CQuote>>, name |-> Wrap(<<Ident("foo")>>)],
     [type |-> Wrap(<<Ident("foo")>>), name |-> <<OQuote, QuotedLit("string"), CQuote>>]}

\* Mutant of UseTypeExpr: the test on the length of inBlocks weakened.
UseTypeExprAnyDepth(inBlocks, name) ==
    Len(inBlocks) >= 1 /\ inBlocks[1] = "variable" /\ name = "type"

\* `len(inBlocks) == 1 && inBlocks[0] == "variable" && name == "type"`
UseTypeExpr(inBlocks, name) ==
    Len(inBlocks) = 1 /\ inBlocks[1] = "variable" /\ name = "type"

\* Mutant of CallerInBlocks: `inBlocks = append(...)` in place of `:=`, so
\* that the loop's append lands in the caller's own variable.
CallerInBlocksAssigned(own, appended) == appended

\* `inBlocks := append(inBlocks, block.Type())` declares a new variable in
\* the loop body: the invocation's own inBlocks stays what it was.
CallerInBlocks(own, appended) == own

\* A cleanBody invocation: `path` is the block types from the document root
\* to its body (what the document says, not what the code computes).
NewFrame(path, slice, nblocks, doc) ==
    [path |-> path,
     inBlocks |-> slice,
     todo |-> AttrNames,
     applied |-> [a \in AttrNames |-> <<>>],
     attrs |-> doc,
     left |-> nblocks]

InitWalk ==
    /\ ExprIdle
    /\ FSIdle
    /\ exprs \in ExampleDocs
    /\ \E n \in 0..MaxBlocks : stack = <<NewFrame(<<>>, NilSlice, n, exprs)>>
    /\ heap = [a \in 1..NumArrays |-> <<>>]

\* One iteration of `for name, attr := range attrs` (in any order).
CleanAttribute ==
    /\ stack # <<>>
    /\ LET top == stack[Len(stack)] IN
       \E name \in top.todo :
          LET useType == UseTypeExpr(View(heap, top.inBlocks), name)
              cleaned == IF useType THEN cleanTypeExpr(top.attrs[name])
                                    ELSE cleanValueExpr(top.attrs[name])
              which == IF useType THEN "cleanTypeExpr" ELSE "cleanValueExpr"
          IN  /\ ~cleaned.panicked
              /\ stack' = [stack EXCEPT ![Len(stack)] =
                             [top EXCEPT !.todo = @ \ {name},
                                         !.attrs[name] = cleaned.tokens,
                                         !.applied[name] = Append(@, which)]]
    /\ UNCHANGED <<exprs, heap, exprVars, fsVars>>

\* One iteration of `for _, block := range blocks`: the append and the call.
EnterBlock ==
    /\ stack # <<>>
    /\ LET top == stack[Len(stack)] IN
       /\ top.todo = {}
       /\ top.left > 0
       /\ \E ty \in BlockTypes :
          \E n \in IF Len(stack) < MaxDepth THEN 0..MaxBlocks ELSE {0} :
             LET r == GoAppend(heap, top.inBlocks, ty)
                 caller == [top EXCEPT !.left = @ - 1,
                                       !.inBlocks = CallerInBlocks(@, r.slice)]
             IN  /\ stack' = Append([stack EXCEPT ![Len(stack)] = caller],
                                    NewFrame(top.path \o <<ty>>, r.slice, n, exprs))
                 /\ heap' = r.heap
    /\ UNCHANGED <<exprs, exprVars, fsVars>>

\* cleanBody returns once both loops are over.
ReturnFromBody ==
    /\ stack # <<>>
    /\ stack[Len(stack)].todo = {}
    /\ stack[Len(stack)].left = 0
    /\ stack' = SubSeq(stack, 1, Len(stack) - 1)
    /\ heap' = Collect(heap, stack')
    /\ UNCHANGED <<exprs, exprVars, fsVars>>

NextWalk ==
    \/ CleanAttribute
    \/ EnterBlock
    \/ ReturnFromBody

SpecWalk == InitWalk /\ [][NextWalk]_vars


(***************************************************************************)
(* The driver: processItem, processDir and processFile (main.go:34-104)    *)
(* over a directory given as the argument:                                 *)
(*     <arg>/link.tf  <arg>/main.tf  <arg>/notes.txt  <arg>/<sub>/vars.tf  *)
(* File names are sequences of characters, paths are names joined by "/".  *)
(***************************************************************************)
Nodes == {"root", "link", "main", "notes", "sub", "vars"}
Files == {"link", "main", "notes", "vars"}

DotTf == <<".", "t", "f">>

\* strings.HasPrefix and strings.HasSuffix
HasPrefix(str, prefix) ==
    Len(str) >= Len(prefix) /\ SubSeq(str, 1, Len(prefix)) = prefix
HasSuffix(str, suffix) ==
    Len(str) >= Len(suffix) /\ SubSeq(str, Len(str) - Len(suffix) + 1, Len(str)) = suffix

\* filepath.Join(dir, name): the two joined by a separator and cleaned, so
\* that a leading "./" goes.
Join(dir, name) == IF dir = <<".">> THEN name ELSE dir \o <<"/">> \o name

\* FileInfo.Name(): the last element of the path.
Base(path) ==
    LET seps == {i \in 1..Len(path) : path[i] = "/"}
    IN  IF seps = {} THEN path ELSE SubSeq(path, Max(seps) + 1, Len(path))

ArgNames == {<<".">>, <<"m", "o", "d">>}
SubNames == {<<"s", "u", "b">>, <<".", "g", "i", "t">>}
LinkKinds == {"regular", "symlink"}

\* The documents on disk: an attribute expression as its tokens, one token
\* standing for its bytes.
Docs ==
    {<<Ident("foo")>>,
     Wrap(<<Ident("foo")>>),
     Wrap(<<Newline, Ident("foo"), OParen, Ident("bar"), CParen, Newline>>)}

NodeName(fst, n) ==
    CASE n = "root" -> fst.argName
      [] n = "link" -> <<"l">> \o DotTf
      [] n = "main" -> <<"m">> \o DotTf
      [] n = "notes" -> <<"n", ".", "t", "x", "t">>
      [] n = "sub" -> fst.subName
      [] n = "vars" -> <<"v">> \o DotTf

NodeKind(fst, n) ==
    CASE n \in {"root", "sub"} -> "dir"
      [] n = "link" -> fst.linkKind
      [] OTHER -> "regular"

\* ioutil.ReadDir: the entries of a directory, sorted by file name.
ReadDir(fst, n) ==
    CASE n = "root" -> IF HasPrefix(fst.subName, <<".">>)
                       THEN <<"sub", "link", "main", "notes">>
                       ELSE <<"link", "main", "notes", "sub">>
      [] n = "sub" -> <<"vars">>
      [] OTHER -> <<>>

\* Mutant of DiagsHasErrors: the diagnostics are logged and then ignored.
DiagsIgnored(valid) == FALSE

\* hclwrite.ParseConfig's diags.HasErrors(), for a file the parser accepts
\* (valid) or rejects.
DiagsHasErrors(valid) == ~valid

\* cleanFile, then f.Bytes(): the top-level attribute goes through
\* cleanBody with inBlocks = nil, that is through cleanValueExpr.
cleanFile(src) == cleanValueExpr(src).tokens

ItemFrame(path, n) == [fn |-> "processItem", path |-> path, node |-> n]
DirFrame(path, n) ==
    [fn |-> "processDir", path |-> path, node |-> n, pc |-> "readdir", entries |-> <<>>]
FileFrame(path, n) ==
    [fn |-> "processFile", path |-> path, node |-> n, pc |-> "read",
     src |-> <<>>, newSrc |-> <<>>]

Top == calls[Len(calls)]
Pop == SubSeq(calls, 1, Len(calls) - 1)
ReplaceTop(frame) == [calls EXCEPT ![Len(calls)] = frame]

InitFS ==
    /\ ExprIdle
    /\ WalkIdle
    /\ \E a \in ArgNames, sn \in SubNames, k \in LinkKinds,
          v \in [{"link", "main"} -> BOOLEAN], c \in [{"link", "main"} -> Docs] :
          fsys = [argName |-> a, subName |-> sn, linkKind |-> k,
                  valid |-> [n \in Files |-> IF n \in DOMAIN v THEN v[n] ELSE TRUE],
                  content |-> [n \in Files |->
                                 IF n \in DOMAIN c THEN c[n]
                                 ELSE IF n = "notes" THEN <<Ident("foo")>>
                                 ELSE Wrap(<<Ident("foo")>>)]]
    /\ disk = fsys.content
    /\ calls = <<ItemFrame(fsys.argName, "root")>>
    /\ processed = {}
    /\ skipLogged = {}
    /\ ioFailed = FALSE
    /\ wstate = [n \in Files |-> "untouched"]

\* processItem, main.go:34-55.
ProcessItem ==
    /\ calls # <<>>
    /\ Top.fn = "processItem"
    /\ \E lstatOk \in BOOLEAN :
          IF ~lstatOk
          THEN /\ calls' = Pop
               /\ ioFailed' = TRUE
               /\ UNCHANGED <<processed, skipLogged>>
          ELSE LET info == [Name |-> Base(Top.path), Kind |-> NodeKind(fsys, Top.node)] IN
               /\ ioFailed' = ioFailed
               /\ IF info.Kind = "dir"
                  THEN /\ calls' = IF HasPrefix(info.Name, <<".">>)
                                   THEN Pop
                                   ELSE ReplaceTop(DirFrame(Top.path, Top.node))
                       /\ UNCHANGED <<processed, skipLogged>>
                  ELSE /\ skipLogged' = IF info.Kind # "regular"
                                        THEN skipLogged \cup {Top.node}
                                        ELSE skipLogged
                       /\ IF ~HasSuffix(Top.path, DotTf)
                          THEN /\ calls' = Pop
                               /\ UNCHANGED processed
                          ELSE /\ calls' = ReplaceTop(FileFrame(Top.path, Top.node))
                               /\ processed' = processed \cup {Top.node}
    /\ UNCHANGED <<fsys, disk, wstate, exprVars, walkVars>>

\* processDir, main.go:58-62: ioutil.ReadDir.
ProcessDirRead ==
    /\ calls # <<>>
    /\ Top.fn = "processDir"
    /\ Top.pc = "readdir"
    /\ \E readOk \in BOOLEAN :
          IF readOk
          THEN /\ calls' = ReplaceTop([Top EXCEPT !.pc = "loop",
                                                  !.entries = ReadDir(fsys, Top.node)])
               /\ UNCHANGED ioFailed
          ELSE /\ calls' = Pop
               /\ ioFailed' = TRUE
    /\ UNCHANGED <<fsys, disk, processed, skipLogged, wstate, exprVars, walkVars>>

\* processDir, main.go:64-66: one iteration of the loop over the entries.
ProcessDirEntry ==
    /\ calls # <<>>
    /\ Top.fn = "processDir"
    /\ Top.pc = "loop"
    /\ Top.entries # <<>>
    /\ LET entry == Head(Top.entries) IN
       calls' = Append(ReplaceTop([Top EXCEPT !.entries = Tail(@)]),
                       ItemFrame(Join(Top.path, NodeName(fsys, entry)), entry))
    /\ UNCHANGED <<fsys, disk, processed, skipLogged, ioFailed, wstate, exprVars, walkVars>>

ProcessDirReturn ==
    /\ calls # <<>>
    /\ Top.fn = "processDir"
    /\ Top.pc = "loop"
    /\ Top.entries = <<>>
    /\ calls' = Pop
    /\ UNCHANGED <<fsys, disk, processed, skipLogged, ioFailed, wstate, exprVars, walkVars>>

\* processFile, main.go:70-74: ioutil.ReadFile.
FileRead ==
    /\ calls # <<>>
    /\ Top.fn = "processFile"
    /\ Top.pc = "read"
    /\ \E readOk \in BOOLEAN :
          calls' = IF readOk
                   THEN ReplaceTop([Top EXCEPT !.pc = "parse", !.src = disk[Top.node]])
                   ELSE Pop
    /\ UNCHANGED <<fsys, disk, processed, skipLogged, ioFailed, wstate, exprVars, walkVars>>

\* processFile, main.go:76-86: the parse and the return on its errors.
FileParse ==
    /\ calls # <<>>
    /\ Top.fn = "processFile"
    /\ Top.pc = "parse"
    /\ calls' = IF DiagsHasErrors(fsys.valid[Top.node])
                THEN Pop
                ELSE ReplaceTop([Top EXCEPT !.pc = "clean"])
    /\ UNCHANGED <<fsys, disk, processed, skipLogged, ioFailed, wstate, exprVars, walkVars>>

\* processFile, main.go:88-94: cleanFile, f.Bytes() and the comparison.
FileClean ==
    /\ calls # <<>>
    /\ Top.fn = "processFile"
    /\ Top.pc = "clean"
    /\ LET newSrc == cleanFile(Top.src) IN
       calls' = IF newSrc = Top.src
                THEN Pop
                ELSE ReplaceTop([Top EXCEPT !.pc = "open", !.newSrc = newSrc])
    /\ UNCHANGED <<fsys, disk, processed, skipLogged, ioFailed, wstate, exprVars, walkVars>>

\* ioutil.WriteFile, main.go:97: it opens the file with O_TRUNC ...
FileWriteOpen ==
    /\ calls # <<>>
    /\ Top.fn = "processFile"
    /\ Top.pc = "open"
    /\ \E openOk \in BOOLEAN :
          IF openOk
          THEN /\ disk' = [disk EXCEPT ![Top.node] = <<>>]
               /\ wstate' = [wstate EXCEPT ![Top.node] = "writing"]
               /\ calls' = ReplaceTop([Top EXCEPT !.pc = "write"])
          ELSE /\ calls' = Pop
               /\ UNCHANGED <<disk, wstate>>
    /\ UNCHANGED <<fsys, processed, skipLogged, ioFailed, exprVars, walkVars>>

\* ... and writes the bytes: all of them, or on an error only the first k
\* (main.go:98-103).
FileWriteData ==
    /\ calls # <<>>
    /\ Top.fn = "processFile"
    /\ Top.pc = "write"
    /\ \E k \in 0..Len(Top.newSrc) :
          /\ disk' = [disk EXCEPT ![Top.node] = SubSeq(Top.newSrc, 1, k)]
          /\ wstate' = [wstate EXCEPT ![Top.node] =
                           IF k = Len(Top.newSrc) THEN "written" ELSE "failed"]
    /\ calls' = Pop
    /\ UNCHANGED <<fsys, processed, skipLogged, ioFailed, exprVars, walkVars>>

NextFS ==
    \/ ProcessItem
    \/ ProcessDirRead
    \/ ProcessDirEntry
    \/ ProcessDirReturn
    \/ FileRead
    \/ FileParse
    \/ FileClean
    \/ FileWriteOpen
    \/ FileWriteData

SpecFS == InitFS /\ [][NextFS]_vars


(***************************************************************************)
(* Properties of the simplifiers (checked under SpecExpr).                 *)
(***************************************************************************)
\* The interior of a sequence of at least five tokens.
Interior(toks) == [j \in 1..(Len(toks) - 4) |-> toks[j + 2]]

\* Quote depth after the first k interior tokens.
Depth(inside, k) ==
    Cardinality({i \in 1..k : inside[i].Type = "TokenOQuote"})
      - Cardinality({i \in 1..k : inside[i].Type = "TokenCQuote"})

DepthNeverNegative(inside) == \A k \in 0..Len(inside) : Depth(inside, k) >= 0

HasNonNewline(inside) == \E i \in 1..Len(inside) : inside[i].Type # "TokenNewline"

AllNewlines(toks) == \A i \in 1..Len(toks) : toks[i].Type = "TokenNewline"

\* An interpolation delimiter met while the quote depth is 0.
SiblingInterp(inside) ==
    \E i \in 1..Len(inside) :
        /\ inside[i].Type \in {"TokenTemplateInterp", "TokenTemplateSeqEnd"}
        /\ Depth(inside, i - 1) = 0

HasDelimiters(toks) ==
    <<toks[1].Type, toks[2].Type, toks[Len(toks) - 1].Type, toks[Len(toks)].Type>>
      = <<"TokenOQuote", "TokenTemplateInterp", "TokenTemplateSeqEnd", "TokenCQuote">>

\* The interior without its leading and trailing newline tokens.
StripNewlines(inside) ==
    LET keep == {i \in 1..Len(inside) : inside[i].Type # "TokenNewline"}
    IN  [j \in 1..(Max(keep) - Min(keep) + 1) |-> inside[Min(keep) + j - 1]]

ValueReference(toks) ==
    IF Len(toks) < 5 \/ ~HasDelimiters(toks) \/ SiblingInterp(Interior(toks))
    THEN toks
    ELSE StripNewlines(Interior(toks))

\* C1: on every token sequence whose interior holds a non-newline token and
\* whose quote depth never drops below zero, cleanValueExpr returns the
\* reference result: the input unchanged when it is shorter than 5, lacks the
\* four delimiters or has an interpolation delimiter at quote depth 0, and
\* otherwise the interior without leading and trailing newlines. (Inputs
\* shorter than 5 are returned unchanged whatever they hold.)
C1_ValueMatchesReference ==
    op = "cleanValueExpr" =>
        /\ Len(tokens) < 5 => out = Ret(tokens)
        /\ (/\ Len(tokens) >= 5
            /\ HasNonNewline(Interior(tokens))
            /\ DepthNeverNegative(Interior(tokens)))
           => out = Ret(ValueReference(tokens))

\* "${foo"${foo}"}": interpolation delimiters only inside nested quotes.
NestedQuoteInput ==
    <<OQuote, Interp, Ident("foo"), OQuote, Interp, Ident("foo"), SeqEnd, CQuote,
      SeqEnd, CQuote>>

C1_Witness ==
    /\ op = "cleanValueExpr"
    /\ tokens = NestedQuoteInput
    /\ out = Ret(<<Ident("foo"), OQuote, Interp, Ident("foo"), SeqEnd, CQuote>>)

\* C2: cleanValueExpr is idempotent: applied to its own output it returns
\* that output unchanged.
C2_Idempotent ==
    op = "cleanValueExprTwice" => out2 = out

\* The legacy type table, as token kinds and texts.
LegacyTypeTable ==
    [string |-> <<[Type |-> "TokenIdent", Bytes |-> "string"]>>,
     list |-> <<[Type |-> "TokenIdent", Bytes |-> "list"],
                [Type |-> "TokenOParen", Bytes |-> "("],
                [Type |-> "TokenIdent", Bytes |-> "string"],
                [Type |-> "TokenCParen", Bytes |-> ")"]>>,
     map |-> <<[Type |-> "TokenIdent", Bytes |-> "map"],
               [Type |-> "TokenOParen", Bytes |-> "("],
               [Type |-> "TokenIdent", Bytes |-> "string"],
               [Type |-> "TokenCParen", Bytes |-> ")"]>>]

IsLegacyShape(toks) ==
    /\ Len(toks) = 3
    /\ <<toks[1].Type, toks[2].Type, toks[3].Type>>
         = <<"TokenOQuote", "TokenQuotedLit", "TokenCQuote">>

\* C3: cleanTypeExpr implements exactly the legacy type table: an input of
\* exactly open-quote, quoted-literal, close-quote whose text is "string",
\* "list" or "map" yields the table's tokens; every other input is returned
\* unchanged.
C3_TypeTable ==
    op = "cleanTypeExpr" =>
        out = Ret(IF IsLegacyShape(tokens) /\ tokens[2].Bytes \in DOMAIN LegacyTypeTable
                  THEN LegacyTypeTable[tokens[2].Bytes]
                  ELSE tokens)

C3_Witness ==
    /\ op = "cleanTypeExpr"
    /\ tokens = <<OQuote, QuotedLit("list"), CQuote>>
    /\ Len(out.tokens) = 4
    /\ out.tokens[1].Bytes = "list"

\* C5: trimNewlines never fails, returns the empty sequence for an input of
\* newlines only, and so cleanValueExpr never fails either.
C5_TrimTotal ==
    /\ op = "trimNewlines" =>
           /\ ~out.panicked
           /\ AllNewlines(tokens) => out.tokens = <<>>
    /\ op = "cleanValueExpr" => ~out.panicked

\* C6 as stated: each simplifier's result is no longer than its input.
C6_NeverLonger ==
    (op \in {"cleanValueExpr", "cleanTypeExpr"} /\ ~out.panicked)
        => Len(out.tokens) <= Len(tokens)

\* C6 as amended: cleanTypeExpr always returns, at most one token more than
\* its input and more only for the quoted literals "list" and "map";
\* cleanValueExpr returns a sequence no longer than its input, except that it
\* fails exactly when the delimiters match and the interior is all newlines.
C6_LengthBound ==
    /\ op = "cleanTypeExpr" =>
           /\ ~out.panicked
           /\ Len(out.tokens) <= Len(tokens) + 1
           /\ Len(out.tokens) > Len(tokens) =>
                  /\ IsLegacyShape(tokens)
                  /\ tokens[2].Bytes \in {"list", "map"}
    /\ op = "cleanValueExpr" =>
           IF Len(tokens) >= 5 /\ HasDelimiters(tokens) /\ AllNewlines(Interior(tokens))
           THEN out.panicked
           ELSE ~out.panicked /\ Len(out.tokens) <= Len(tokens)

C6_Witness ==
    /\ op = "cleanTypeExpr"
    /\ tokens = <<OQuote, QuotedLit("map"), CQuote>>
    /\ Len(out.tokens) = Len(tokens) + 1

(***************************************************************************)
(* Properties of the walk (checked under SpecWalk).                        *)
(***************************************************************************)
\* The simplifier the claim assigns to attribute `name` of the body at `path`.
ExpectedSimplifier(path, name) ==
    IF path = <<"variable">> /\ name = "type" THEN "cleanTypeExpr" ELSE "cleanValueExpr"

SimplifierResult(which, toks) ==
    IF which = "cleanTypeExpr" THEN cleanTypeExpr(toks).tokens
    ELSE cleanValueExpr(toks).tokens

\* C4: every attribute is handed to the type simplifier exactly when the
\* chain of enclosing block types is the single entry "variable" and the
\* attribute is named "type", and to the value simplifier otherwise; each
\* attribute gets exactly one of the two, once, before the walk descends.
C4_ContextGating ==
    \A i \in 1..Len(stack) :
        /\ i < Len(stack) => stack[i].todo = {}
        /\ \A name \in AttrNames :
              IF name \in stack[i].todo
              THEN /\ stack[i].applied[name] = <<>>
                   /\ stack[i].attrs[name] = exprs[name]
              ELSE /\ stack[i].applied[name] = <<ExpectedSimplifier(stack[i].path, name)>>
                   /\ stack[i].attrs[name] =
                        SimplifierResult(ExpectedSimplifier(stack[i].path, name), exprs[name])

\* A `type` attribute cleaned as a type in a variable block, and as a value
\* in a variable block nested in it.
C4_Witness ==
    /\ Len(stack) >= 3
    /\ stack[2].path = <<"variable">>
    /\ stack[2].applied["type"] = <<"cleanTypeExpr">>
    /\ stack[2].attrs["type"] = <<Ident("list"), OParen, Ident("string"), CParen>>
    /\ stack[3].path = <<"variable", "variable">>
    /\ stack[3].applied["type"] = <<"cleanValueExpr">>
    /\ stack[3].attrs["type"] = <<OQuote, QuotedLit("list"), CQuote>>

\* C9: throughout every cleanBody invocation the inBlocks it sees is exactly
\* the sequence of block types from the document root to its body.
C9_ContextIsolation ==
    \A i \in 1..Len(stack) : View(heap, stack[i].inBlocks) = stack[i].path

\* An invocation three blocks deep whose backing array still holds, past its
\* own length, the context an earlier child block's call appended, while it
\* has another child block to visit.
C9_Witness ==
    /\ Len(stack) = 4
    /\ stack[4].left > 0
    /\ stack[4].inBlocks.len = 3
    /\ stack[4].inBlocks.cap = 4
    /\ heap[stack[4].inBlocks.arr][4] = "variable"
    /\ View(heap, stack[4].inBlocks) = <<"resource", "resource", "resource">>

(***************************************************************************)
(* Properties of the driver (checked under SpecFS).                        *)
(***************************************************************************)
\* The complete serialization of the fully cleaned body of file n.
CleanedBytes(n) == cleanValueExpr(fsys.content[n]).tokens

InProcessFile(n) ==
    \E i \in 1..Len(calls) : calls[i].fn = "processFile" /\ calls[i].node = n

IsProperPrefix(p, full) ==
    Len(p) < Len(full) /\ \A i \in 1..Len(p) : p[i] = full[i]

\* C7 as stated, for the files processFile is not working on at the moment:
\* the content on disk is the original bytes or the complete serialization
\* of the cleaned body.
C7_AtomicReplace ==
    \A n \in Files :
        ~InProcessFile(n) => disk[n] \in {fsys.content[n], CleanedBytes(n)}

\* C7 as amended: a file is its original bytes (never written), or the
\* complete serialization of the cleaned body (written in full), or, while
\* WriteFile is at work on it or after it failed part-way, a proper prefix
\* of that serialization; a file whose parse reports errors is never written.
C7_OriginalCleanedOrPrefix ==
    \A n \in Files :
        /\ ~fsys.valid[n] => (disk[n] = fsys.content[n] /\ wstate[n] = "untouched")
        /\ \/ wstate[n] = "untouched" /\ disk[n] = fsys.content[n]
           \/ wstate[n] = "written" /\ disk[n] = CleanedBytes(n)
           \/ /\ wstate[n] \in {"writing", "failed"}
              /\ IsProperPrefix(disk[n], CleanedBytes(n))

\* A write that failed part-way: two of the four tokens are on disk.
C7_Witness ==
    /\ wstate["main"] = "failed"
    /\ ~InProcessFile("main")
    /\ disk["main"] = <<Ident("foo"), OParen>>
    /\ ~fsys.valid["link"]
    /\ "link" \in processed
    /\ ~InProcessFile("link")

\* C8: once the traversal of the argument directory is over (no Lstat or
\* ReadDir call having failed), processFile has been invoked on every regular
\* file named *.tf in the directory or nested in it, whatever the names of
\* the argument directory and of the nested directories.
C8_AllTfFilesProcessed ==
    (calls = <<>> /\ ~ioFailed) =>
        \A n \in Files :
            (NodeKind(fsys, n) = "regular" /\ HasSuffix(NodeName(fsys, n), DotTf))
                => n \in processed

\* C10: processFile is never invoked on a path that processItem has logged
\* as skipped for being neither a regular file nor a directory.
C10_NonRegularSkipped ==
    \A n \in skipLogged : n \notin processed

=============================================================================
